---- MODULE Spec2Model ----
(***************************************************************************)
(* Model of backend/server.py: the heuristic voice classifier              *)
(* analyze_audio_features and the POST /api/voice-detection handler        *)
(* detect_voice.                                                           *)
(*                                                                         *)
(* Units.  The five statistics are integers in their own units: pitch and  *)
(* spectral-centroid standard deviations in Hz, zcr and rms standard       *)
(* deviations in thousandths (the threshold 0.02 is 20), spectral contrast *)
(* in dB.  Indicators and ai_probability are in ten-thousandths (0.8 is    *)
(* 8000); a rounded confidence is in hundredths (0.72 is 72).  The sum of  *)
(* five table indicators is a multiple of 0.05, so their mean is a whole   *)
(* number of hundredths; evaluating the 48 combinations in IEEE doubles in *)
(* the order numpy adds them gives the same comparison with 0.5 and the    *)
(* same rounded confidence as the exact arithmetic used here.              *)
(*                                                                         *)
(* Text.  Labels and explanations are sequences of characters, so that     *)
(* Python's substring test, slicing and str.join are computed.             *)
(***************************************************************************)
EXTENDS Integers, Sequences, FiniteSets, TLC

\* "Unnatural pitch consistency detected"
LabelUnnaturalPitch ==
  << "U", "n", "n", "a", "t", "u", "r", "a", "l", " ", "p", "i", "t", "c",
     "h", " ", "c", "o", "n", "s", "i", "s", "t", "e", "n", "c", "y", " ",
     "d", "e", "t", "e", "c", "t", "e", "d" >>

\* "Moderate pitch variation"
LabelModeratePitch ==
  << "M", "o", "d", "e", "r", "a", "t", "e", " ", "p", "i", "t", "c", "h",
     " ", "v", "a", "r", "i", "a", "t", "i", "o", "n" >>

\* "Natural pitch variation"
LabelNaturalPitch ==
  << "N", "a", "t", "u", "r", "a", "l", " ", "p", "i", "t", "c", "h", " ",
     "v", "a", "r", "i", "a", "t", "i", "o", "n" >>

\* "Robotic speech patterns"
LabelRobotic ==
  << "R", "o", "b", "o", "t", "i", "c", " ", "s", "p", "e", "e", "c", "h",
     " ", "p", "a", "t", "t", "e", "r", "n", "s" >>

\* "Low spectral dynamics"
LabelLowSpectral ==
  << "L", "o", "w", " ", "s", "p", "e", "c", "t", "r", "a", "l", " ", "d",
     "y", "n", "a", "m", "i", "c", "s" >>

\* "Uniform energy distribution"
LabelUniformEnergy ==
  << "U", "n", "i", "f", "o", "r", "m", " ", "e", "n", "e", "r", "g", "y",
     " ", "d", "i", "s", "t", "r", "i", "b", "u", "t", "i", "o", "n" >>

\* "Flat tonal quality"
LabelFlatTonal ==
  << "F", "l", "a", "t", " ", "t", "o", "n", "a", "l", " ", "q", "u", "a",
     "l", "i", "t", "y" >>

\* "Natural speech characteristics and human-like variations detected"
HumanExplanation ==
  << "N", "a", "t", "u", "r", "a", "l", " ", "s", "p", "e", "e", "c", "h",
     " ", "c", "h", "a", "r", "a", "c", "t", "e", "r", "i", "s", "t", "i",
     "c", "s", " ", "a", "n", "d", " ", "h", "u", "m", "a", "n", "-", "l",
     "i", "k", "e", " ", "v", "a", "r", "i", "a", "t", "i", "o", "n", "s",
     " ", "d", "e", "t", "e", "c", "t", "e", "d" >>

\* "Unable to analyze audio features completely, defaulting to human classification"
FallbackExplanation ==
  << "U", "n", "a", "b", "l", "e", " ", "t", "o", " ", "a", "n", "a", "l",
     "y", "z", "e", " ", "a", "u", "d", "i", "o", " ", "f", "e", "a", "t",
     "u", "r", "e", "s", " ", "c", "o", "m", "p", "l", "e", "t", "e", "l",
     "y", ",", " ", "d", "e", "f", "a", "u", "l", "t", "i", "n", "g", " ",
     "t", "o", " ", "h", "u", "m", "a", "n", " ", "c", "l", "a", "s", "s",
     "i", "f", "i", "c", "a", "t", "i", "o", "n" >>

\* "Natural"
Natural ==
  << "N", "a", "t", "u", "r", "a", "l" >>

\* ", "
Separator ==
  << ",", " " >>

(***************************************************************************)
(* Bounds of the model.                                                    *)
(***************************************************************************)
\* Calls of analyze_audio_features made directly in one behaviour of Spec.
MaxCalls == 2

\* Requests handled in one behaviour of SpecApi.
MaxRequests == 2

(***************************************************************************)
(* Text helpers: Python's `sub in s`, `xs[:n]` and `sep.join(xs)`.         *)
(***************************************************************************)
Contains(s, sub) ==
  \E i \in 1..(Len(s) - Len(sub) + 1) : SubSeq(s, i, i + Len(sub) - 1) = sub

Take(xs, n) ==
  SubSeq(xs, 1, IF Len(xs) < n THEN Len(xs) ELSE n)

RECURSIVE Join(_, _)
Join(sep, xs) ==
  IF Len(xs) = 0 THEN << >>
  ELSE IF Len(xs) = 1 THEN xs[1]
  ELSE xs[1] \o sep \o Join(sep, Tail(xs))

(***************************************************************************)
(* Numeric helpers: np.mean and round(x, 2).                               *)
(***************************************************************************)
RECURSIVE Sum(_)
Sum(xs) ==
  IF Len(xs) = 0 THEN 0 ELSE xs[1] + Sum(Tail(xs))

\* Mutant of Mean: np.sum in place of np.mean.
MeanAsSum(xs) ==
  Sum(xs)

\* np.mean of a list of ten-thousandths.
Mean(xs) ==
  Sum(xs) \div Len(xs)

\* round(x, 2): ten-thousandths to hundredths, ties to the even hundredth.
Round2(x) ==
  LET q == x \div 100
      r == x % 100
  IN  IF r > 50 THEN q + 1
      ELSE IF r < 50 THEN q
      ELSE IF q % 2 = 0 THEN q ELSE q + 1

(***************************************************************************)
(* The five threshold rules (server.py 114-151).  Each gives the indicator *)
(* appended to ai_indicators and the labels appended to explanations.      *)
(***************************************************************************)
\* Mutant of PitchRule: the thresholds compared with <= instead of <.
PitchRuleInclusive(pitch_std) ==
  IF pitch_std <= 50
    THEN [indicator |-> 8000, labels |-> << LabelUnnaturalPitch >>]
  ELSE IF pitch_std <= 100
    THEN [indicator |-> 5000, labels |-> << LabelModeratePitch >>]
  ELSE [indicator |-> 2000, labels |-> << LabelNaturalPitch >>]

PitchRule(pitch_std) ==
  IF pitch_std < 50
    THEN [indicator |-> 8000, labels |-> << LabelUnnaturalPitch >>]
  ELSE IF pitch_std < 100
    THEN [indicator |-> 5000, labels |-> << LabelModeratePitch >>]
  ELSE [indicator |-> 2000, labels |-> << LabelNaturalPitch >>]

ZcrRule(zcr_std) ==
  IF zcr_std < 20
    THEN [indicator |-> 7000, labels |-> << LabelRobotic >>]
  ELSE [indicator |-> 3000, labels |-> << >>]

CentroidRule(spectral_centroid_std) ==
  IF spectral_centroid_std < 200
    THEN [indicator |-> 7500, labels |-> << LabelLowSpectral >>]
  ELSE [indicator |-> 2500, labels |-> << >>]

RmsRule(rms_std) ==
  IF rms_std < 20
    THEN [indicator |-> 7000, labels |-> << LabelUniformEnergy >>]
  ELSE [indicator |-> 3000, labels |-> << >>]

ContrastRule(contrast_std) ==
  IF contrast_std < 5
    THEN [indicator |-> 6500, labels |-> << LabelFlatTonal >>]
  ELSE [indicator |-> 3500, labels |-> << >>]

\* The rules in the order the code applies them.
Rules(f) ==
  << PitchRule(f.pitch_std), ZcrRule(f.zcr_std),
     CentroidRule(f.spectral_centroid_std), RmsRule(f.rms_std),
     ContrastRule(f.contrast_std) >>

AiIndicators(f) ==
  [i \in 1..Len(Rules(f)) |-> Rules(f)[i].indicator]

RECURSIVE Concat(_)
Concat(xss) ==
  IF Len(xss) = 0 THEN << >> ELSE xss[1] \o Concat(Tail(xss))

Explanations(f) ==
  Concat([i \in 1..Len(Rules(f)) |-> Rules(f)[i].labels])

\* Mutant of IsAi: ai_probability >= 0.5.
IsAiInclusive(ai_probability) ==
  ai_probability >= 5000

\* Mutant of IsAi: the comparison turned round, ai_probability < 0.5.
IsAiInverted(ai_probability) ==
  ai_probability < 5000

\* ai_probability > 0.5
IsAi(ai_probability) ==
  ai_probability > 5000

\* Mutant of MainExplanation: the test made on lower-cased text,
\* "natural" not in e.lower().
LowerChar(c) ==
  CASE c = "N" -> "n" [] c = "U" -> "u" [] c = "M" -> "m" [] c = "R" -> "r"
    [] c = "L" -> "l" [] c = "F" -> "f" [] OTHER -> c

LowerText(s) ==
  [i \in 1..Len(s) |-> LowerChar(s[i])]

MainExplanationIgnoringCase(explanations) ==
  Join(Separator,
       Take(SelectSeq(explanations,
                      LAMBDA e : ~Contains(LowerText(e), LowerText(Natural))), 2))

\* [e for e in explanations if "Natural" not in e][:2], joined with ", "
MainExplanation(explanations) ==
  Join(Separator, Take(SelectSeq(explanations, LAMBDA e : ~Contains(e, Natural)), 2))

\* Lines 153-166: the classification, the rounded confidence, the explanation.
Classify(ai_indicators, explanations) ==
  LET ai_probability == Mean(ai_indicators)
  IN  IF IsAi(ai_probability)
        THEN [classification |-> "AI_GENERATED",
              confidence     |-> Round2(ai_probability),
              explanation    |-> MainExplanation(explanations)]
        ELSE [classification |-> "HUMAN",
              confidence     |-> Round2(10000 - ai_probability),
              explanation    |-> HumanExplanation]

\* Line 171: the result of the except branch.
Fallback ==
  [classification |-> "HUMAN", confidence |-> 55,
   explanation |-> FallbackExplanation]

(***************************************************************************)
(* Inputs.  An audio buffer is abstracted by what the decoder and the      *)
(* feature extractor make of it: "speech" decodes and yields the five      *)
(* statistics; "garbage" and "empty" make librosa.load raise; "degenerate" *)
(* decodes but makes a feature computation raise.  The statistics of a     *)
(* buffer that is not speech are never read.                               *)
(***************************************************************************)
PitchStds == {0, 30, 49, 50, 99, 100, 150}

ZcrStds == {10, 20, 50}

CentroidStds == {100, 200, 400}

RmsStds == {10, 20, 50}

ContrastStds == {3, 5, 8}

FeatureVectors ==
  [pitch_std : PitchStds, zcr_std : ZcrStds,
   spectral_centroid_std : CentroidStds, rms_std : RmsStds,
   contrast_std : ContrastStds]

NoFeatures ==
  [pitch_std |-> 0, zcr_std |-> 0, spectral_centroid_std |-> 0,
   rms_std |-> 0, contrast_std |-> 0]

Speech(f) ==
  [kind |-> "speech", features |-> f]

Unreadable(kind) ==
  [kind |-> kind, features |-> NoFeatures]

AudioBuffers ==
  {Speech(f) : f \in FeatureVectors}
    \cup {Unreadable(k) : k \in {"garbage", "empty", "degenerate"}}

\* What the file system does during one call: nothing wrong, or the creation
\* of the temporary file, the write to it, or its removal raises OSError.
FsOutcomes == {"ok", "create_fails", "write_fails", "unlink_fails"}

(***************************************************************************)
(* analyze_audio_features (server.py 56-171).                              *)
(***************************************************************************)
\* The steps of the body, in order.
Steps == << "create", "write", "load", "unlink", "extract", "score" >>

\* The first step that raises, or "none".
FailedStep(audio_data, fs) ==
  IF fs = "create_fails" THEN "create"
  ELSE IF fs = "write_fails" THEN "write"
  ELSE IF audio_data.kind \in {"garbage", "empty"} THEN "load"
  ELSE IF fs = "unlink_fails" THEN "unlink"
  ELSE IF audio_data.kind = "degenerate" THEN "extract"
  ELSE "none"

\* Mutant of TryCovers: the try block opened after the temporary file is
\* written.
TryCoversAfterTempFile(step) ==
  step \notin {"create", "write"}

\* Mutant of TryCovers: the try block around the feature code only.
TryCoversFeaturesOnly(step) ==
  step \in {"extract", "score"}

\* The steps inside the try block of lines 61-166.
TryCovers(step) ==
  \E i \in 1..Len(Steps) : Steps[i] = step

\* Whether the temporary file is on disk when the call ends: it is created by
\* NamedTemporaryFile(delete=False) and removed only by the os.unlink of line
\* 71, which runs after a successful librosa.load.
TempFileLeft(failed) ==
  failed \in {"write", "load", "unlink"}

\* tempfile picks a name that does not exist yet.
NewTempPath(dir) ==
  CHOOSE n \in 1..(Cardinality(dir) + 1) : n \notin dir

NoCall ==
  [called |-> FALSE, audio_data |-> Unreadable("empty"), fs |-> "ok",
   failed |-> "none", raised |-> FALSE, temp_path |-> 0,
   ai_indicators |-> << >>, explanations |-> << >>,
   result |-> [classification |-> "", confidence |-> 0, explanation |-> << >>]]

\* One call: what it returns (or that it raises), its locals at that point,
\* and the temporary directory afterwards.
AnalyzeAudioFeatures(audio_data, fs, dir) ==
  LET failed    == FailedStep(audio_data, fs)
      temp_path == IF failed = "create" THEN 0 ELSE NewTempPath(dir)
      scored    == failed = "none"
      ai_indicators == IF scored THEN AiIndicators(audio_data.features) ELSE << >>
      explanations  == IF scored THEN Explanations(audio_data.features) ELSE << >>
  IN  [call |->
         [called |-> TRUE, audio_data |-> audio_data, fs |-> fs,
          failed |-> failed,
          raised |-> failed # "none" /\ ~TryCovers(failed),
          temp_path |-> temp_path,
          ai_indicators |-> ai_indicators,
          explanations |-> explanations,
          result |-> IF scored THEN Classify(ai_indicators, explanations)
                     ELSE IF TryCovers(failed) THEN Fallback
                     ELSE NoCall.result],
       dir |-> IF TempFileLeft(failed) THEN dir \cup {temp_path} ELSE dir]

VARIABLES
  files,      \* the temporary files on disk
  calls,      \* direct calls of analyze_audio_features so far
  analysis,   \* the last call of analyze_audio_features
  requests,   \* requests handled so far
  handled,    \* the last request and what the handler did with it
  db          \* the voice_analyses collection

vars == << files, calls, analysis, requests, handled, db >>

\* A direct call of analyze_audio_features.
Analyze(audio_data, fs) ==
  /\ calls < MaxCalls
  /\ LET out == AnalyzeAudioFeatures(audio_data, fs, files)
     IN  /\ analysis' = out.call
         /\ files' = out.dir
  /\ calls' = calls + 1
  /\ UNCHANGED << requests, handled, db >>

(***************************************************************************)
(* POST /api/voice-detection (server.py 180-246).                          *)
(***************************************************************************)
VALID_API_KEY == "sk_test_voice_detection_2026"

\* Header(None): the value of x_api_key when the request has no such header.
None == "<None>"

ApiKeys == {None, "", "invalid_key_123", VALID_API_KEY}

\* Literal[...] of VoiceDetectionRequest.language (line 40).
LanguageLiteral == {"Tamil", "English", "Hindi", "Malayalam", "Telugu"}

\* valid_languages of the handler (line 197).
valid_languages == << "Tamil", "English", "Hindi", "Malayalam", "Telugu" >>

Languages == {"English", "French"}

AudioFormats == {"mp3", "MP3", "wav"}

\* str.lower on the formats above.
Lower(s) ==
  IF s = "MP3" THEN "mp3" ELSE s

\* The buffers the requests carry: scenario A, scenario B, the combination
\* whose mean is exactly 0.5, undecodable bytes and a degenerate signal.
ScenarioA ==
  [pitch_std |-> 30, zcr_std |-> 10, spectral_centroid_std |-> 100,
   rms_std |-> 10, contrast_std |-> 3]

ScenarioB ==
  [pitch_std |-> 150, zcr_std |-> 50, spectral_centroid_std |-> 400,
   rms_std |-> 50, contrast_std |-> 8]

ScenarioHalf ==
  [pitch_std |-> 50, zcr_std |-> 50, spectral_centroid_std |-> 100,
   rms_std |-> 50, contrast_std |-> 3]

RequestBuffers ==
  {Speech(ScenarioA), Speech(ScenarioB), Speech(ScenarioHalf),
   Unreadable("garbage"), Unreadable("degenerate")}

\* audioBase64: the canonical encoding of a buffer; a string of characters
\* outside the base64 alphabet only ("!!!!"); a string whose number of
\* alphabet characters is 1 mod 4; a string with a non-ASCII character.
Base64Strings ==
  {[form |-> "canonical", payload |-> b] : b \in RequestBuffers}
    \cup {[form |-> f, payload |-> Unreadable("empty")] :
            f \in {"non_alphabet", "bad_padding", "non_ascii"}}

\* base64.b64decode(s) with validate=False: characters outside the alphabet
\* are discarded, wrong padding raises binascii.Error, and a str that is not
\* ASCII raises ValueError.
B64Decode(s) ==
  IF s.form = "bad_padding"
    THEN [raises |-> "binascii.Error", data |-> Unreadable("empty")]
  ELSE IF s.form = "non_ascii"
    THEN [raises |-> "ValueError", data |-> Unreadable("empty")]
  ELSE [raises |-> "none", data |-> s.payload]

Requests ==
  [x_api_key : ApiKeys, language : Languages, audioFormat : AudioFormats,
   audioBase64 : Base64Strings]

\* FastAPI validates the body against VoiceDetectionRequest before it calls
\* the handler, and answers 422 when a field does not validate.
BodyValidates(request) ==
  request.language \in LanguageLiteral

\* Line 190.
ApiKeyRejected(x_api_key) ==
  x_api_key = None \/ x_api_key = "" \/ x_api_key # VALID_API_KEY

\* Line 198.
LanguageRejected(language) ==
  ~ \E i \in 1..Len(valid_languages) : valid_languages[i] = language

\* Line 205.
FormatRejected(audioFormat) ==
  Lower(audioFormat) # "mp3"

NoResult ==
  [classification |-> "", confidence |-> 0, explanation |-> << >>]

Reply(request, status, detail, result, decoded, analysed, inserted, db_up) ==
  [request |-> request, db_up |-> db_up, status |-> status, detail |-> detail,
   classification |-> result.classification,
   confidenceScore |-> result.confidence,
   explanation |-> result.explanation,
   decoded |-> decoded, analysed |-> analysed, inserted |-> inserted]

\* The handler from the arrival of the request to its response: the response
\* and what was done on the way, the last analysis, the temporary directory
\* and the collection afterwards.
DetectVoice(request, fs, db_up, dir, coll) ==
  LET rejected(status, detail) ==
        [handled |-> Reply(request, status, detail, NoResult,
                           FALSE, FALSE, FALSE, db_up),
         analysis |-> NoCall, dir |-> dir, coll |-> coll]
      decodedAs == B64Decode(request.audioBase64)
      out == AnalyzeAudioFeatures(decodedAs.data, fs, dir)
      analysis_record ==
        [id |-> Len(coll) + 1, language |-> request.language,
         classification |-> out.call.result.classification,
         confidence |-> out.call.result.confidence]
  IN  IF ~BodyValidates(request)
        THEN rejected(422, "validation error")
      ELSE IF ApiKeyRejected(request.x_api_key)
        THEN rejected(401, "Invalid API key or malformed request")
      ELSE IF LanguageRejected(request.language)
        THEN rejected(400, "Invalid language")
      ELSE IF FormatRejected(request.audioFormat)
        THEN rejected(400, "Only MP3 format is supported")
      ELSE IF decodedAs.raises = "binascii.Error"
        THEN rejected(400, "Invalid base64 encoding")
      ELSE IF decodedAs.raises # "none"
        THEN rejected(500, "Internal server error")
      ELSE IF out.call.raised
        THEN [handled |-> Reply(request, 500, "Internal server error",
                                NoResult, TRUE, TRUE, FALSE, db_up),
              analysis |-> out.call, dir |-> out.dir, coll |-> coll]
      ELSE IF ~db_up
        THEN [handled |-> Reply(request, 500, "Internal server error",
                                NoResult, TRUE, TRUE, FALSE, db_up),
              analysis |-> out.call, dir |-> out.dir, coll |-> coll]
      ELSE [handled |-> Reply(request, 200, "success", out.call.result,
                              TRUE, TRUE, TRUE, db_up),
            analysis |-> out.call, dir |-> out.dir,
            coll |-> Append(coll, analysis_record)]

NoRequest ==
  Reply([x_api_key |-> None, language |-> "", audioFormat |-> "",
         audioBase64 |-> [form |-> "non_alphabet",
                          payload |-> Unreadable("empty")]],
        0, "", NoResult, FALSE, FALSE, FALSE, TRUE)

\* One request, handled to its response.  db_up is whether insert_one
\* succeeds.
Handle(request, fs, db_up) ==
  /\ requests < MaxRequests
  /\ LET out == DetectVoice(request, fs, db_up, files, db)
     IN  /\ handled' = out.handled
         /\ analysis' = out.analysis
         /\ files' = out.dir
         /\ db' = out.coll
  /\ requests' = requests + 1
  /\ UNCHANGED calls

Init ==
  /\ files = {}
  /\ calls = 0
  /\ analysis = NoCall
  /\ requests = 0
  /\ handled = NoRequest
  /\ db = << >>

\* Every buffer with a file system that works, and the buffers of the requests
\* with each file-system failure.
DirectCalls ==
  (AudioBuffers \X {"ok"}) \cup (RequestBuffers \X FsOutcomes)

NextAnalyze ==
  \E c \in DirectCalls : Analyze(c[1], c[2])

NextApi ==
  \E request \in Requests, fs \in {"ok", "write_fails"}, db_up \in BOOLEAN :
    Handle(request, fs, db_up)

\* Direct calls of analyze_audio_features over the whole feature space.
Spec == Init /\ [][NextAnalyze]_vars

\* Requests to the endpoint.
SpecApi == Init /\ [][NextApi]_vars

(***************************************************************************)
(* Properties of analyze_audio_features, checked under Spec.               *)
(***************************************************************************)
\* The last call ran the scoring code (no step raised).
Scored ==
  analysis.called /\ analysis.failed = "none"

\* C1: whenever a step of analyze_audio_features fails, the call raises
\* nothing and returns HUMAN, 0.55 and the fixed fallback explanation.
C1_FailOpen ==
  (analysis.called /\ analysis.failed # "none") =>
    /\ ~analysis.raised
    /\ analysis.result.classification = "HUMAN"
    /\ analysis.result.confidence = 55
    /\ analysis.result.explanation = FallbackExplanation

\* A call whose temporary file could not be written came back with the
\* fallback result.
C1_Witness ==
  /\ analysis.called
  /\ analysis.failed = "write"
  /\ ~analysis.raised
  /\ analysis.result.confidence = 55

\* C2: on the normal path and on the fallback path the classification is
\* AI_GENERATED or HUMAN and the confidence lies between 0 and 1.
C2_Bounds ==
  analysis.called =>
    /\ ~analysis.raised
    /\ analysis.result.classification \in {"AI_GENERATED", "HUMAN"}
    /\ analysis.result.confidence >= 0
    /\ analysis.result.confidence <= 100

\* Scenario B was scored: HUMAN with confidence 0.72.
C2_Witness ==
  /\ Scored
  /\ analysis.audio_data.features = ScenarioB
  /\ analysis.result.classification = "HUMAN"
  /\ analysis.result.confidence = 72

\* C3: the five statistics map to their indicators with half-open
\* thresholds, a value equal to a threshold takes the higher-variation
\* branch, and exactly five indicators are produced.
C3_Thresholds ==
  Scored =>
    LET f == analysis.audio_data.features
        ind == analysis.ai_indicators
    IN  /\ Len(ind) = 5
        /\ f.pitch_std < 50 => ind[1] = 8000
        /\ (50 <= f.pitch_std /\ f.pitch_std < 100) => ind[1] = 5000
        /\ f.pitch_std >= 100 => ind[1] = 2000
        /\ ind[2] = (IF f.zcr_std < 20 THEN 7000 ELSE 3000)
        /\ ind[3] = (IF f.spectral_centroid_std < 200 THEN 7500 ELSE 2500)
        /\ ind[4] = (IF f.rms_std < 20 THEN 7000 ELSE 3000)
        /\ ind[5] = (IF f.contrast_std < 5 THEN 6500 ELSE 3500)
        /\ f.pitch_std = 50 => ind[1] = 5000
        /\ f.pitch_std = 100 => ind[1] = 2000
        /\ f.zcr_std = 20 => ind[2] = 3000
        /\ f.spectral_centroid_std = 200 => ind[3] = 2500
        /\ f.rms_std = 20 => ind[4] = 3000
        /\ f.contrast_std = 5 => ind[5] = 3500

\* A buffer whose five statistics all sit on their thresholds was scored.
C3_Witness ==
  /\ Scored
  /\ analysis.audio_data.features =
       [pitch_std |-> 50, zcr_std |-> 20, spectral_centroid_std |-> 200,
        rms_std |-> 20, contrast_std |-> 5]
  /\ analysis.ai_indicators = << 5000, 3000, 2500, 3000, 3500 >>

\* C4: aiProbability is the mean of the five indicators; the result is
\* AI_GENERATED with confidence round(aiProbability, 2) exactly when
\* aiProbability > 0.5, otherwise HUMAN with round(1 - aiProbability, 2); a
\* mean of exactly 0.5 gives HUMAN 0.50 and scenario A gives AI_GENERATED
\* 0.72.  With total the sum of the indicators, the mean exceeds 0.5 exactly
\* when total > 25000, and c hundredths is the mean rounded to two decimals
\* when 500 * c is within 250 of total.
C4_AveragingLaw ==
  Scored =>
    LET ind == analysis.ai_indicators
        total == ind[1] + ind[2] + ind[3] + ind[4] + ind[5]
        res == analysis.result
        near(a, b) == a - b <= 250 /\ b - a <= 250
    IN  /\ (res.classification = "AI_GENERATED") <=> (total > 25000)
        /\ (res.classification = "HUMAN") <=> (total <= 25000)
        /\ total > 25000 => near(500 * res.confidence, total)
        /\ total <= 25000 => near(500 * res.confidence, 50000 - total)
        /\ ind = << 5000, 3000, 7500, 3000, 6500 >> =>
             (res.classification = "HUMAN" /\ res.confidence = 50)
        /\ ind = << 8000, 7000, 7500, 7000, 6500 >> =>
             (res.classification = "AI_GENERATED" /\ res.confidence = 72)

\* The indicators 0.50, 0.30, 0.75, 0.30, 0.65 were scored: HUMAN, 0.50.
C4_Witness ==
  /\ Scored
  /\ analysis.ai_indicators = << 5000, 3000, 7500, 3000, 6500 >>
  /\ analysis.result.classification = "HUMAN"
  /\ analysis.result.confidence = 50

\* The labels the claim keeps for an AI_GENERATED explanation, in the order
\* pitch, zcr, centroid, rms, contrast.
C5_Kept(f) ==
  (IF f.pitch_std < 50 THEN << LabelUnnaturalPitch >>
   ELSE IF f.pitch_std < 100 THEN << LabelModeratePitch >> ELSE << >>)
  \o (IF f.zcr_std < 20 THEN << LabelRobotic >> ELSE << >>)
  \o (IF f.spectral_centroid_std < 200 THEN << LabelLowSpectral >> ELSE << >>)
  \o (IF f.rms_std < 20 THEN << LabelUniformEnergy >> ELSE << >>)
  \o (IF f.contrast_std < 5 THEN << LabelFlatTonal >> ELSE << >>)

\* C5: an AI_GENERATED explanation is the first two collected labels without
\* "Natural" (case-sensitive: the "Unnatural ..." label is kept, the
\* "Natural pitch variation" label is dropped) joined with ", "; a HUMAN
\* explanation on the normal path is the fixed string.
C5_Explanation ==
  Scored =>
    LET kept == C5_Kept(analysis.audio_data.features)
        res == analysis.result
    IN  /\ res.classification = "AI_GENERATED" =>
             /\ Len(kept) >= 2
             /\ res.explanation = kept[1] \o << ",", " " >> \o kept[2]
        /\ res.classification = "HUMAN" =>
             res.explanation = HumanExplanation

\* An AI_GENERATED result whose collected labels start with "Natural pitch
\* variation", which the explanation leaves out.
C5_Witness ==
  /\ Scored
  /\ analysis.result.classification = "AI_GENERATED"
  /\ analysis.explanations[1] = LabelNaturalPitch
  /\ analysis.result.explanation
       = LabelRobotic \o << ",", " " >> \o LabelLowSpectral

\* C9: the temporary file of a call no longer exists when the call returns,
\* on the normal path and on the fallback path, so no sequence of calls
\* leaves temporary files behind.
C9_NoTempFileLeft ==
  files = {}

\* C10: whenever the normal path classifies as AI_GENERATED, some collected
\* label does not contain "Natural" and the explanation is not empty; when
\* no collected label is free of "Natural", the mean is at most 0.40.
C10_ExplanationNotEmpty ==
  Scored =>
    LET labels == analysis.explanations
        ind == analysis.ai_indicators
        total == ind[1] + ind[2] + ind[3] + ind[4] + ind[5]
        free == {i \in 1..Len(labels) : ~Contains(labels[i], Natural)}
    IN  /\ analysis.result.classification = "AI_GENERATED" =>
             (free # {} /\ analysis.result.explanation # << >>)
        /\ free = {} => total <= 20000

\* An AI_GENERATED result with the moderate pitch label in its explanation.
C10_Witness ==
  /\ Scored
  /\ analysis.result.classification = "AI_GENERATED"
  /\ analysis.audio_data.features.pitch_std = 99
  /\ Len(analysis.result.explanation) > Len(LabelModeratePitch)

(***************************************************************************)
(* Properties of POST /voice-detection, checked under SpecApi.             *)
(***************************************************************************)
\* A request has been handled.
Answered ==
  handled.status # 0

\* The request fails authentication or validation: the key is missing or
\* wrong, the language is not one of the five, the format is not mp3, or
\* audioBase64 is not the base64 encoding of a buffer.
AuthOrValidationProblem ==
  \/ handled.request.x_api_key \in {None, ""}
  \/ handled.request.x_api_key # "sk_test_voice_detection_2026"
  \/ handled.request.language
       \notin {"Tamil", "English", "Hindi", "Malayalam", "Telugu"}
  \/ handled.request.audioFormat \notin {"mp3", "MP3"}
  \/ handled.request.audioBase64.form # "canonical"

C7_BadKeyIs401 ==
  (Answered /\ handled.request.x_api_key # "sk_test_voice_detection_2026") =>
    /\ handled.status = 401
    /\ ~handled.decoded
    /\ ~handled.analysed
    /\ ~handled.inserted

\* C8: a request with the valid key and a language outside the five is
\* answered 400, without analysis and without an audit record.
C8_InvalidLanguageIs400 ==
  (/\ Answered
   /\ handled.request.x_api_key = "sk_test_voice_detection_2026"
   /\ handled.request.language
        \notin {"Tamil", "English", "Hindi", "Malayalam", "Telugu"}) =>
    /\ handled.status = 400
    /\ ~handled.analysed
    /\ ~handled.inserted

====
